---- MODULE Spec2Model ----
(***************************************************************************)
(* Model of the batch sampling driver hymm_sp/sample_batch.py (main).      *)
(*                                                                         *)
(* Every cooperating process runs main(): it creates the save folder,      *)
(* resolves its rank, builds the dataset loader and then, for each batch,  *)
(* prepares latents with the VAE (tiling on, encodes, optional background  *)
(* concatenation, tiling off), calls the sampler's predict and, when its   *)
(* rank is 0, saves every sample and muxes the audio track.                *)
(*                                                                         *)
(* The VAE, the sampler, the data loader, save_videos_grid and ffmpeg are  *)
(* collaborators outside the file: each call to one of them either raises  *)
(* (the exception leaves main, which has no try/except) or returns a value *)
(* drawn from a small set.                                                 *)
(***************************************************************************)
EXTENDS Integers, Sequences, FiniteSets, TLC

\* ---------------------------------------------------------------- bounds
MaxProcs   == 2      \* largest number of cooperating processes
NumRecords == 2      \* length of the dataset
MaxImages  == 2      \* largest args.num_images (samples per prompt)
MaxDim     == 2      \* largest latent channel count / frame count / height

\* ------------------------------------------------------ program constants
SpatialFactor  == 8  \* args.video_size = (h * 8, w * 8)
TemporalFactor == 4  \* args.sample_n_frames = (t - 1) * 4 + 1

Procs   == 0 .. (MaxProcs - 1)
Records == 1 .. NumRecords

\* Python's None, for a path, for a latent tensor and for the request history
None == "None"
NoLatents == [c |-> 0, t |-> 0, h |-> 0, w |-> 0]
NoRequest == [size |-> <<0, 0>>, video_length |-> 0, bg_latents |-> NoLatents]

\* Shapes (c, t, h, w) of the latents vae.encode(...).latent_dist.sample()
\* returns for a background clip or a mask (batch axis is 1: batch_size=1).
LatentShapes ==
    { [c |-> c, t |-> t, h |-> h, w |-> h + 1] :
        c \in 1 .. MaxDim, t \in 1 .. MaxDim, h \in 1 .. MaxDim }

\* args.video_size and args.sample_n_frames as parse_args / the sampler left
\* them (no multiple of 8, so no derived size equals the configured one).
Configured == [video_size |-> <<5, 7>>, sample_n_frames |-> 3]

\* args.save_path and the two values args.save_path_suffix is drawn from.
BasePath == "results"
Suffixes == {"", "v2"}

VARIABLES
    \* run configuration (args) and environment, fixed by Init
    world_size,        \* number of cooperating processes
    video_condition,   \* args.video_condition
    audio_condition,   \* args.audio_condition
    save_path_suffix,  \* args.save_path_suffix
    num_images,        \* args.num_images
    codecShapes,       \* latent shapes the VAE can return for this dataset
    dataset,           \* record -> its audio path, None when the batch has no 'audio_path'
    \* filesystem, shared by the processes
    dirs,              \* directories that exist
    files,             \* path of every output file that exists -> the sample it holds
    \* per process
    pc,                \* position in main
    rank,              \* local rank
    indices,           \* what the DataLoader's sampler yields
    batch_index,       \* enumerate(json_loader, start=1)
    audio_path,        \* batch['audio_path'][0] or None
    tiling,            \* the VAE's tiling flag
    encN,              \* encode calls made for the current batch
    bg_latents,        \* shape of bg_latents, NoLatents for None
    mask_latents,      \* shape of mask_latents, NoLatents for None
    video_size,        \* args.video_size
    sample_n_frames,   \* args.sample_n_frames
    i,                 \* index in enumerate(samples), 1-based
    error,             \* which call raised, "none" while running
    \* history, for the properties
    iterated,          \* records this process has taken from the loader
    predictCalls,      \* record -> number of predict calls of this process
    request,           \* size / video_length / bg_latents of the last predict
    untiledEncodes,    \* encode calls made while tiling was off
    catArgs,           \* the two shapes given to torch.cat for the current batch
    emitLog,           \* owner's filesystem operations for the current batch
    fsWriters          \* processes that wrote in the emit step

cfgVars  == <<world_size, video_condition, audio_condition, save_path_suffix,
              num_images, codecShapes, dataset>>
fsVars   == <<dirs, files>>
procVars == <<pc, rank, indices, batch_index, audio_path, tiling, encN,
              bg_latents, mask_latents, video_size, sample_n_frames, i, error>>
histVars == <<iterated, predictCalls, request, untiledEncodes, catArgs, emitLog,
              fsWriters>>
vars     == <<cfgVars, fsVars, procVars, histVars>>

Active == 0 .. (world_size - 1)


\* ------------------------------------------------------------- operators

\* save_path = args.save_path if args.save_path_suffix == "" else
\* f'{args.save_path}_{args.save_path_suffix}'; a path is the tuple of its parts.
SavePath ==
    IF save_path_suffix = "" THEN <<BasePath>> ELSE <<BasePath, save_path_suffix>>

\* if not os.path.exists(args.save_path): os.makedirs(save_path, exist_ok=True)
CreateSaveFolder(d) ==
    IF <<BasePath>> \notin d THEN d \cup {SavePath} ELSE d

\* nccl_info.sp_size: the size of the process group initialize_distributed set up.
SpSize == world_size

\* rank = 0; if nccl_info.sp_size > 1: rank = torch.distributed.get_rank()
ResolveRank(p) == IF SpSize > 1 THEN p ELSE 0

\* DistributedSampler(dataset, num_replicas, rank, shuffle=False, drop_last=False)
\* over a dataset of n records: the index list 0..n-1, padded from its start to
\* a multiple of num_replicas, then every num_replicas-th index from rank on.
\* Records are numbered from 1 here.
DistributedSamplerIndices(n, num_replicas, r) ==
    LET per == (n + num_replicas - 1) \div num_replicas
    IN  [k \in 1 .. per |-> ((r + (k - 1) * num_replicas) % n) + 1]

\* variant: the sampler is given the group's size and the process's rank
SamplerIndicesPerRank(p) ==
    DistributedSamplerIndices(NumRecords, world_size, ResolveRank(p))

\* sampler = DistributedSampler(dataset, num_replicas=1, rank=0, ...)
SamplerIndices(p) == DistributedSamplerIndices(NumRecords, 1, 0)

\* variant: concatenation along axis 2 (frames) instead of axis 1
CatCompatibleDim2(a, b) == a.c = b.c /\ a.h = b.h /\ a.w = b.w

\* torch.cat([bg_latents, mask_latents], dim=1) raises unless every axis but
\* axis 1 (the channels) has the same size in both tensors.
CatCompatible(a, b) == a.t = b.t /\ a.h = b.h /\ a.w = b.w

\* shape of torch.cat([a, b], dim=1)
CatDim1(a, b) == [c |-> a.c + b.c, t |-> a.t, h |-> a.h, w |-> a.w]

\* _, _, t, h, w = bg_latents.shape; args.video_size = (h * 8, w * 8)
DerivedSize(s) == <<s.h * SpatialFactor, s.w * SpatialFactor>>

\* variant: frame count without the leading frame's offset
DerivedFramesNoOffset(s) == s.t * TemporalFactor + 1

\* args.sample_n_frames = (t - 1) * 4 + 1
DerivedFrames(s) == (s.t - 1) * TemporalFactor + 1

\* variant: no rank check before the samples are saved
IsOwnerAlways(p) == TRUE

\* if rank == 0:
IsOwner(p) == rank[p] = 0

\* variant: the audio path is not tested
WantsMuxAnyRecord(p) == audio_condition

\* if args.audio_condition and audio_path is not None:
WantsMux(p) == audio_condition /\ audio_path[p] # None

\* the record of the batch process p is working on; save_name = batch['data_name'][0]
\* is the record's number (save names are taken to be distinct)
Rec(p) == indices[p][batch_index[p]]

\* variant: the sample's index is part of the file name
OutPathPerSample(p) == <<SavePath, Rec(p), i[p], ".mp4">>

\* out_path = f"{save_path}/{save_name}.mp4"
OutPath(p) == <<SavePath, Rec(p), ".mp4">>

\* out_audio_path = f"{save_path}/{save_name}_audio.mp4"
OutAudioPath(p) == <<SavePath, Rec(p), "_audio.mp4">>

\* a file is created or overwritten / removed
WriteFile(fs, path, sample) ==
    [q \in DOMAIN fs \cup {path} |-> IF q = path THEN sample ELSE fs[q]]
RemoveFile(fs, path) == [q \in DOMAIN fs \ {path} |-> fs[q]]

\* ------------------------------------------------------------------ Init

\* The state when main starts.  One modality is active (video, audio or
\* neither: lines 43-48 pick one dataset class), and a video dataset's batches
\* carry no 'audio_path'.
InitWith(sizes, shapes, datasets, folders, suffixes, images) ==
    /\ world_size \in sizes
    /\ dataset \in datasets
    /\ video_condition \in BOOLEAN
    /\ audio_condition \in BOOLEAN
    /\ ~(video_condition /\ audio_condition)
    /\ video_condition => \A r \in Records : dataset[r] = None
    /\ save_path_suffix \in suffixes
    /\ num_images \in images
    /\ codecShapes = shapes
    /\ dirs \in folders
    /\ dirs \subseteq {<<BasePath>>, SavePath}
    /\ files = <<>>
    /\ pc = [p \in Procs |-> IF p < world_size THEN "setup" ELSE "absent"]
    /\ rank = [p \in Procs |-> 0]
    /\ indices = [p \in Procs |-> <<>>]
    /\ batch_index = [p \in Procs |-> 0]
    /\ audio_path = [p \in Procs |-> None]
    /\ tiling = [p \in Procs |-> FALSE]
    /\ encN = [p \in Procs |-> 0]
    /\ bg_latents = [p \in Procs |-> NoLatents]
    /\ mask_latents = [p \in Procs |-> NoLatents]
    /\ video_size = [p \in Procs |-> Configured.video_size]
    /\ sample_n_frames = [p \in Procs |-> Configured.sample_n_frames]
    /\ i = [p \in Procs |-> 0]
    /\ error = [p \in Procs |-> "none"]
    /\ iterated = [p \in Procs |-> <<>>]
    /\ predictCalls = [p \in Procs |-> [r \in Records |-> 0]]
    /\ request = [p \in Procs |-> NoRequest]
    /\ untiledEncodes = [p \in Procs |-> 0]
    /\ catArgs = [p \in Procs |-> <<NoLatents, NoLatents>>]
    /\ emitLog = [p \in Procs |-> <<>>]
    /\ fsWriters = {}

\* the folders that may exist before the run
Folders == SUBSET {<<BasePath>>, <<BasePath, "v2">>}

\* one process, every latent shape, every dataset, every set of folders, both
\* suffixes, every number of samples per prompt
Init ==
    InitWith({1}, LatentShapes, [Records -> {None, "a.wav"}], Folders, Suffixes,
             1 .. MaxImages)

\* ---------------------------------------------------------------- actions

\* an exception leaves main: the process ends where it is
Raise(p, what) ==
    /\ pc' = [pc EXCEPT ![p] = "failed"]
    /\ error' = [error EXCEPT ![p] = what]

\* lines 26-50: save folder, rank, dataset, sampler and loader
Setup(p) ==
    /\ pc[p] = "setup"
    /\ dirs' = CreateSaveFolder(dirs)
    /\ rank' = [rank EXCEPT ![p] = ResolveRank(p)]
    /\ indices' = [indices EXCEPT ![p] = SamplerIndices(p)]
    /\ pc' = [pc EXCEPT ![p] = "load"]
    /\ UNCHANGED <<cfgVars, files, batch_index, audio_path, tiling,
                   encN, bg_latents, mask_latents, video_size, sample_n_frames, i,
                   error, histVars>>

\* lines 51-64: the loader yields the next batch (or raises, or is exhausted)
\* and the batch's fields are unpacked.  bg_latents / mask_latents of the last
\* batch are dead here (always reassigned before they are read) and are
\* dropped; the per-batch history starts afresh.
LoadBatch(p) ==
    /\ pc[p] = "load"
    /\ IF batch_index[p] = Len(indices[p])
       THEN /\ pc' = [pc EXCEPT ![p] = "done"]
            /\ UNCHANGED <<error, batch_index, audio_path, encN, bg_latents,
                           mask_latents, iterated, request, catArgs, emitLog>>
       ELSE \E ok \in BOOLEAN :
            IF ok
            THEN /\ batch_index' = [batch_index EXCEPT ![p] = @ + 1]
                 /\ iterated' = [iterated EXCEPT ![p] =
                                   Append(@, indices[p][batch_index[p] + 1])]
                 /\ audio_path' = [audio_path EXCEPT ![p] =
                                     dataset[indices[p][batch_index[p] + 1]]]
                 /\ encN' = [encN EXCEPT ![p] = 0]
                 /\ bg_latents' = [bg_latents EXCEPT ![p] = NoLatents]
                 /\ mask_latents' = [mask_latents EXCEPT ![p] = NoLatents]
                 /\ request' = [request EXCEPT ![p] = NoRequest]
                 /\ catArgs' = [catArgs EXCEPT ![p] = <<NoLatents, NoLatents>>]
                 /\ emitLog' = [emitLog EXCEPT ![p] = <<>>]
                 /\ pc' = [pc EXCEPT ![p] = "enable"]
                 /\ UNCHANGED error
            ELSE /\ Raise(p, "load")
                 /\ UNCHANGED <<batch_index, audio_path, encN, bg_latents,
                                mask_latents, iterated, request, catArgs, emitLog>>
    /\ UNCHANGED <<cfgVars, fsVars, rank, indices, tiling, video_size,
                   sample_n_frames, i, predictCalls, untiledEncodes, fsWriters>>

\* line 66: hunyuan_video_sampler.vae.enable_tiling()
EnableTiling(p) ==
    /\ pc[p] = "enable"
    /\ tiling' = [tiling EXCEPT ![p] = TRUE]
    /\ pc' = [pc EXCEPT ![p] = "encode"]
    /\ UNCHANGED <<cfgVars, fsVars, rank, indices, batch_index, audio_path, encN,
                   bg_latents, mask_latents, video_size, sample_n_frames, i, error,
                   histVars>>

\* lines 67, 68, 71, 73: the next vae.encode(...) call of the batch: the
\* reference, the all-ones reference and, under video_condition, the
\* background clip and the mask (line 80: bg_latents = None otherwise).
Encode(p) ==
    /\ pc[p] = "encode"
    /\ untiledEncodes' = [untiledEncodes EXCEPT ![p] = IF tiling[p] THEN @ ELSE @ + 1]
    /\ encN' = [encN EXCEPT ![p] = @ + 1]
    /\ \E ok \in BOOLEAN, s \in codecShapes :
         IF ~ok
         THEN /\ Raise(p, "encode")
              /\ UNCHANGED <<bg_latents, mask_latents>>
         ELSE /\ UNCHANGED error
              /\ bg_latents' = [bg_latents EXCEPT ![p] = IF encN[p] = 2 THEN s ELSE @]
              /\ mask_latents' = [mask_latents EXCEPT ![p] = IF encN[p] = 3 THEN s ELSE @]
              /\ pc' = [pc EXCEPT ![p] =
                          IF encN[p] = 3 THEN "cat"
                          ELSE IF encN[p] = 1 /\ ~video_condition THEN "disable"
                          ELSE "encode"]
    /\ UNCHANGED <<cfgVars, fsVars, rank, indices, batch_index, audio_path, tiling,
                   video_size, sample_n_frames, i, iterated, predictCalls, request,
                   catArgs, emitLog, fsWriters>>

\* lines 74-78: concatenate along the channel axis, derive size and frame count
Concat(p) ==
    /\ pc[p] = "cat"
    /\ catArgs' = [catArgs EXCEPT ![p] = <<bg_latents[p], mask_latents[p]>>]
    /\ IF CatCompatible(bg_latents[p], mask_latents[p])
       THEN LET cat == CatDim1(bg_latents[p], mask_latents[p])
            IN  /\ bg_latents' = [bg_latents EXCEPT ![p] = cat]
                /\ video_size' = [video_size EXCEPT ![p] = DerivedSize(cat)]
                /\ sample_n_frames' = [sample_n_frames EXCEPT ![p] = DerivedFrames(cat)]
                /\ pc' = [pc EXCEPT ![p] = "disable"]
                /\ UNCHANGED error
       ELSE /\ Raise(p, "cat")
            /\ UNCHANGED <<bg_latents, video_size, sample_n_frames>>
    /\ UNCHANGED <<cfgVars, fsVars, rank, indices, batch_index, audio_path, tiling,
                   encN, mask_latents, i, iterated, predictCalls, request,
                   untiledEncodes, emitLog, fsWriters>>

\* lines 81-83: scale the reference latents, vae.disable_tiling()
DisableTiling(p) ==
    /\ pc[p] = "disable"
    /\ tiling' = [tiling EXCEPT ![p] = FALSE]
    /\ pc' = [pc EXCEPT ![p] = "predict"]
    /\ UNCHANGED <<cfgVars, fsVars, rank, indices, batch_index, audio_path, encN,
                   bg_latents, mask_latents, video_size, sample_n_frames, i, error,
                   histVars>>

\* after the last sample of a batch (or for a process that is not the owner)
\* the loop goes back to the loader
AfterSample(p) ==
    IF i[p] < num_images
    THEN /\ i' = [i EXCEPT ![p] = @ + 1]
         /\ pc' = [pc EXCEPT ![p] = "write"]
    ELSE /\ i' = i
         /\ pc' = [pc EXCEPT ![p] = "load"]

\* lines 84-110: hunyuan_video_sampler.predict(size=args.video_size,
\* video_length=args.sample_n_frames, bg_latents=bg_latents, ...), which
\* returns num_images samples or raises; then the rank check
Predict(p) ==
    /\ pc[p] = "predict"
    /\ predictCalls' = [predictCalls EXCEPT ![p][Rec(p)] = @ + 1]
    /\ request' = [request EXCEPT ![p] =
                     [size |-> video_size[p], video_length |-> sample_n_frames[p],
                      bg_latents |-> bg_latents[p]]]
    /\ \E ok \in BOOLEAN :
         IF ~ok
         THEN Raise(p, "predict") /\ i' = i
         ELSE /\ UNCHANGED error
              /\ IF IsOwner(p)
                 THEN /\ i' = [i EXCEPT ![p] = 1]
                      /\ pc' = [pc EXCEPT ![p] = "write"]
                 ELSE /\ i' = i
                      /\ pc' = [pc EXCEPT ![p] = "load"]
    /\ UNCHANGED <<cfgVars, fsVars, rank, indices, batch_index, audio_path, tiling,
                   encN, bg_latents, mask_latents, video_size, sample_n_frames,
                   iterated, untiledEncodes, catArgs, emitLog, fsWriters>>

\* lines 112-115 and 120: save_videos_grid(sample, f"{save_path}/{save_name}.mp4")
\* for sample i.  When the folder is missing, save_videos_grid (outside this
\* file) either creates it or raises.
SaveVideo(p) ==
    /\ pc[p] = "write"
    /\ \E mk \in BOOLEAN :
         IF SavePath \in dirs \/ mk
         THEN /\ dirs' = dirs \cup {SavePath}
              /\ files' = WriteFile(files, OutPath(p), i[p])
              /\ emitLog' = [emitLog EXCEPT ![p] = Append(@, "write")]
              /\ fsWriters' = fsWriters \cup {p}
              /\ UNCHANGED error
              /\ IF WantsMux(p)
                 THEN pc' = [pc EXCEPT ![p] = "mux"] /\ i' = i
                 ELSE AfterSample(p)
         ELSE /\ Raise(p, "write")
              /\ UNCHANGED <<dirs, files, emitLog, fsWriters, i>>
    /\ UNCHANGED <<cfgVars, rank, indices, batch_index, audio_path,
                   tiling, encN, bg_latents, mask_latents, video_size,
                   sample_n_frames, iterated, predictCalls, request, untiledEncodes,
                   catArgs>>

\* lines 116-118: os.system("ffmpeg -i out_path -i audio_path -shortest
\* out_audio_path -y -loglevel quiet; rm out_path"): ffmpeg writes the muxed
\* file or exits non-zero, and the shell then runs rm in either case.
Mux(p) ==
    /\ pc[p] = "mux"
    /\ \E ok \in BOOLEAN :
         /\ files' = RemoveFile(IF ok THEN WriteFile(files, OutAudioPath(p), i[p])
                                        ELSE files,
                                  OutPath(p))
         /\ emitLog' = [emitLog EXCEPT ![p] =
                          Append(@, IF ok THEN "mux" ELSE "mux_failed")]
    /\ fsWriters' = fsWriters \cup {p}
    /\ AfterSample(p)
    /\ UNCHANGED <<cfgVars, dirs, rank, indices, batch_index, audio_path, tiling,
                   encN, bg_latents, mask_latents, video_size, sample_n_frames,
                   error, iterated, predictCalls, request, untiledEncodes, catArgs>>

Next ==
    \E p \in Procs :
        \/ Setup(p)
        \/ LoadBatch(p)
        \/ EnableTiling(p)
        \/ Encode(p)
        \/ Concat(p)
        \/ DisableTiling(p)
        \/ Predict(p)
        \/ SaveVideo(p)
        \/ Mux(p)

Spec == Init /\ [][Next]_vars

\* several processes; the VAE returns one latent shape, every second record
\* of an audio or image dataset carries an audio path, no folder exists yet,
\* no suffix, MaxImages samples per prompt
InitDist ==
    InitWith(2 .. MaxProcs, {[c |-> 1, t |-> MaxDim, h |-> 1, w |-> 2]},
             {[r \in Records |-> IF r % 2 = 1 THEN "a.wav" ELSE None],
              [r \in Records |-> None]},
             {{}}, {""}, {MaxImages})

SpecDist == InitDist /\ [][Next]_vars


\* ----------------------------------------------------------- properties

\* process p has made the predict call of its current batch
Requested(p) == request[p] # NoRequest

\* the owner has saved every sample of its current batch
Emitted(p) ==
    /\ rank[p] = 0
    /\ pc[p] \in {"load", "done"}
    /\ Requested(p)

\* the output files that exist for the record of p's current batch
FilesOfRec(p) == {q \in DOMAIN files : q[2] = Rec(p)}

\* C1: the size and frame count given to predict are, under video_condition,
\* (h*8, w*8) and (t-1)*4+1 of the bg_latents given to the same call, and
\* otherwise the configured values, whatever earlier batches did.
C1_ResolvedGeometry ==
    \A p \in Procs :
        Requested(p) =>
            IF video_condition
            THEN /\ request[p].bg_latents = CatDim1(catArgs[p][1], catArgs[p][2])
                 /\ request[p].size = <<request[p].bg_latents.h * 8,
                                        request[p].bg_latents.w * 8>>
                 /\ request[p].video_length = (request[p].bg_latents.t - 1) * 4 + 1
            ELSE /\ request[p].bg_latents = NoLatents
                 /\ request[p].size = Configured.video_size
                 /\ request[p].video_length = Configured.sample_n_frames

\* a second batch whose request carries sizes derived from its own latents,
\* which differ from the ones the first batch left in args
C1_Witness ==
    \E p \in Procs :
        /\ video_condition
        /\ batch_index[p] = 2
        /\ Requested(p)
        /\ request[p].video_length = 5
        /\ request[p].size = <<16, 24>>

\* C2: only a process whose rank is 0 (process 0 of the group) writes in the
\* emit step, and every process calls predict once for each record it takes
\* from its loader: never twice, and once for every record it is past.
C2_OwnerWritesAllPredict ==
    /\ \A p \in fsWriters : rank[p] = 0 /\ p = 0
    /\ \A p \in Procs :
        /\ \A r \in Records : predictCalls[p][r] <= 1
        /\ \A k \in 1 .. Len(iterated[p]) :
              (k < batch_index[p] \/ pc[p] = "done" \/ Requested(p))
                  => predictCalls[p][iterated[p][k]] = 1
        /\ pc[p] = "done" =>
              \A k \in 1 .. Len(indices[p]) : predictCalls[p][indices[p][k]] = 1

\* a process that is not the owner has finished its loop, having called
\* predict for every record, and only the owner has written
C2_Witness ==
    \E p \in Procs :
        /\ rank[p] # 0
        /\ pc[p] = "done"
        /\ \A r \in Records : predictCalls[p][r] = 1
        /\ fsWriters = {0}

\* C3 (as claimed): tiling is on only while a batch's latents are prepared,
\* every encode call happens with tiling on, and tiling is off whenever
\* preparation has been left, also by an exception.
C3_TilingScoped ==
    \A p \in Procs :
        /\ untiledEncodes[p] = 0
        /\ tiling[p] => pc[p] \in {"encode", "cat", "disable"}

\* C4 (as claimed): right after a successful mux the silent file is gone, and
\* right after a failed mux the silent file is still there.
C4_MuxCleanup ==
    \A p \in Procs :
        Len(emitLog[p]) > 0 =>
            /\ emitLog[p][Len(emitLog[p])] = "mux" =>
                   <<SavePath, Rec(p), ".mp4">> \notin DOMAIN files
            /\ emitLog[p][Len(emitLog[p])] = "mux_failed" =>
                   <<SavePath, Rec(p), ".mp4">> \in DOMAIN files

\* the records process p has taken from its loader
Taken(p) == {iterated[p][k] : k \in 1 .. Len(iterated[p])}

\* C5 (as claimed): the processes' records are a disjoint, covering partition
\* of the dataset, each share iterated in dataset order.
C5_DisjointCoveringPartition ==
    /\ \A p, q \in Active : p # q => Taken(p) \cap Taken(q) = {}
    /\ (\A p \in Active : pc[p] = "done") =>
           UNION {Taken(p) : p \in Active} = Records
    /\ \A p \in Active :
           \A j, k \in 1 .. Len(iterated[p]) : j < k => iterated[p][j] < iterated[p][k]

\* C5 (amended): every process iterates the whole dataset, in dataset order:
\* what it has taken is a prefix of 1, 2, ..., NumRecords, and all of it once
\* the loop has ended; the shares cover the dataset and are the same share.
C5_EveryProcessIteratesAll ==
    \A p \in Active :
        /\ \A k \in 1 .. Len(iterated[p]) : iterated[p][k] = k
        /\ Len(iterated[p]) <= NumRecords
        /\ pc[p] = "done" => Taken(p) = Records

\* two processes have both ended their loops over the whole dataset
C5_Witness ==
    \E p, q \in Active :
        /\ p # q
        /\ pc[p] = "done" /\ pc[q] = "done"
        /\ Taken(p) = Records /\ Taken(q) = Records

\* C6 (as claimed): when the background latents and the mask latents differ
\* in channel count, preparation fails and predict is not called.
C6_ChannelMismatchFails ==
    \A p \in Procs :
        (catArgs[p][2] # NoLatents /\ catArgs[p][1].c # catArgs[p][2].c) =>
            /\ pc[p] = "failed" /\ error[p] = "cat"
            /\ ~Requested(p)
            /\ predictCalls[p][Rec(p)] = 0

\* C6 (amended): when the background latents and the mask latents differ in
\* frame count, height or width, torch.cat raises: the process ends there and
\* predict is not called for the record.
C6_ShapeMismatchFails ==
    \A p \in Procs :
        (/\ catArgs[p][2] # NoLatents
         /\ \/ catArgs[p][1].t # catArgs[p][2].t
            \/ catArgs[p][1].h # catArgs[p][2].h
            \/ catArgs[p][1].w # catArgs[p][2].w) =>
            /\ pc[p] = "failed" /\ error[p] = "cat"
            /\ ~Requested(p)
            /\ predictCalls[p][Rec(p)] = 0

\* torch.cat has raised for two latents with equal channel counts
C6_Witness ==
    \E p \in Procs :
        /\ error[p] = "cat"
        /\ catArgs[p][1].c = catArgs[p][2].c
        /\ catArgs[p][1].t # catArgs[p][2].t
        /\ predictCalls[p][Rec(p)] = 0

\* C7 (as claimed): the folder save_path exists when the first output file is
\* about to be written into it.
C7_SaveFolderExists ==
    \A p \in Procs : pc[p] = "write" => SavePath \in dirs

\* C8: the owner muxes a record iff audio_condition holds and the record has
\* an audio path.  Each mux comes right after the write of the silent file;
\* after a mux that succeeded the _audio file holds the sample just written.
\* Otherwise the batch's operations are writes only, no _audio file exists
\* and the silent file is what is left.
C8_MuxIffAudio ==
    \A p \in Procs :
        LET log == emitLog[p]
            cond == audio_condition /\ dataset[Rec(p)] # None
        IN  /\ \A k \in 1 .. Len(log) :
                  log[k] \in {"mux", "mux_failed"} =>
                      cond /\ k > 1 /\ log[k - 1] = "write"
            /\ \A k \in 1 .. Len(log) :
                  (cond /\ log[k] = "write" /\ k < Len(log)) =>
                      log[k + 1] \in {"mux", "mux_failed"}
            /\ (Len(log) > 0 /\ log[Len(log)] = "mux") =>
                  /\ <<SavePath, Rec(p), "_audio.mp4">> \in DOMAIN files
                  /\ files[<<SavePath, Rec(p), "_audio.mp4">>] = Len(log) \div 2
            /\ Emitted(p) =>
                  IF cond
                  THEN /\ Len(log) = 2 * num_images
                       /\ log[Len(log)] \in {"mux", "mux_failed"}
                  ELSE /\ Len(log) = num_images
                       /\ \A k \in 1 .. Len(log) : log[k] = "write"
                       /\ <<SavePath, Rec(p), "_audio.mp4">> \notin DOMAIN files
                       /\ <<SavePath, Rec(p), ".mp4">> \in DOMAIN files

\* an audio record with two samples has been emitted: write, mux, write, mux
C8_Witness ==
    \E p \in Procs :
        /\ Emitted(p)
        /\ audio_condition /\ dataset[Rec(p)] # None
        /\ emitLog[p] = <<"write", "mux", "write", "mux">>
        /\ FilesOfRec(p) = {<<SavePath, Rec(p), "_audio.mp4">>}

\* C9: for an image record without audio path, once the owner has emitted the
\* num_images samples, one file exists for the record, <save_name>.mp4, and
\* it holds the last sample.
C9_OneFileLastSample ==
    \A p \in Procs :
        (Emitted(p) /\ ~video_condition /\ ~audio_condition
                    /\ dataset[Rec(p)] = None) =>
            /\ FilesOfRec(p) = {<<SavePath, Rec(p), ".mp4">>}
            /\ files[<<SavePath, Rec(p), ".mp4">>] = num_images
            /\ Len(emitLog[p]) = num_images

\* an image record with more than one sample has been emitted
C9_Witness ==
    \E p \in Procs :
        /\ Emitted(p) /\ ~video_condition /\ ~audio_condition
        /\ dataset[Rec(p)] = None
        /\ num_images >= 2
        /\ files[<<SavePath, Rec(p), ".mp4">>] = num_images

\* C10 (as claimed): a loader failure does not stop the driver while records
\* remain, and a predict failure does.
C10_FailurePolicy ==
    \A p \in Procs :
        /\ (error[p] = "load" /\ batch_index[p] + 1 < Len(indices[p]))
              => pc[p] # "failed"
        /\ error[p] = "predict" => pc[p] = "failed"

====
